---- MODULE Spec2Model ----
(***************************************************************************)
(* Model of middleware/download.js: the handleDownload request handler.    *)
(*                                                                         *)
(* JavaScript runs a handler without interruption between two awaits, so   *)
(* every action below is one database operation together with the local    *)
(* code that follows it up to the next await.  Several requests are in     *)
(* flight at once and interleave at these points only.                     *)
(***************************************************************************)
EXTENDS Integers, Sequences, FiniteSets, TLC

(* ---------------------------------------------------------------- bounds *)
NReq == 2                     \* number of requests the server receives
MaxRegs == 2                  \* registrations of one event in the export runs
MaxMembers == 2               \* team members of one registration in the export runs

Requests == 1..NReq

(* ------------------------------------------------------------ JS values *)
Undefined == "undefined"      \* a missing body field / an unset env variable
Null == "null"                \* JS null in a string-valued field
NullTime == 0                 \* JS null in a Date-valued field (new Date(null) is epoch 0)

Truthy(v) == v \notin {Undefined, Null, ""}

(* a body field that holds the JSON number 7 instead of a string *)
JsonNumber7 == "number 7"
IsString(v) == v # JsonNumber7

(* eventName is a String path of both collections: Mongoose casts the      *)
(* value of a filter or of a new document to a string (7 becomes "7")      *)
CastString(v) == IF v = JsonNumber7 THEN "7" ELSE v

(* String.prototype.toUpperCase on the identifiers used below *)
ToUpperCase(s) ==
    CASE s = "e1" -> "E1"
      [] s = "e2" -> "E2"
      [] s = "x"  -> "X"
      [] OTHER    -> s

(* -------------------------------------------------------- input domains *)
EventNames == {"E1", "E2"}
CoordsValues == {"e1", "E2", Undefined}
CoordinatorNames == {"alice", "bob"}
Passkeys == {"m", "k1", "", Undefined}

Bodies ==
    [eventName : EventNames, coordsValue : CoordsValues,
     coordinatorName : CoordinatorNames, passkey : Passkeys]

NoBody ==
    [eventName |-> Undefined, coordsValue |-> Undefined,
     coordinatorName |-> Undefined, passkey |-> Undefined]

(* process.env: the master secret is set, empty or unset; E1 has a         *)
(* per-event secret and E2 has none.                                       *)
EnvWith(master) ==
    [k \in {"PASSKEY_MASTER", "PASSKEY_E1"} |->
        IF k = "PASSKEY_MASTER" THEN master ELSE "k1"]

Environments == {EnvWith("m"), EnvWith(""), EnvWith(Undefined)}

(* ------------------------------------------------------- registrations *)
Member(n, roll, phone) == [memName |-> n, memRoll |-> roll, memPhone |-> phone]

Registration(e, team, cap, phone, roll, type, members, at) ==
    [eventName |-> e, teamName |-> team, capName |-> cap, capPhone |-> phone,
     capRoll |-> roll, participantType |-> type, teamMembers |-> members,
     createdAt |-> at]

(* phone numbers are kept as their characters *)
RegE1a == Registration("E1", "t1", "ann", <<"9", "8", "7", "6">>, "101", "INTERNAL",
                       <<Member("bo", "102", <<"9", "0", "1">>)>>, 5)
RegE1b == Registration("E1", "t2", "cy",
                       <<"+", "9", "1", " ", "9", "8", "7", "6", "5", "-", "4", "3", "2", "1">>,
                       "777", "EXTERNAL",
                       <<Member("di", "", <<>>), Member("ed", "104", <<"9", "0", "2">>)>>, 3)
RegE2a == Registration("E2", "t3", "flo", <<"9", "8", "7", "7">>, "201", "INTERNAL", <<>>, 4)
(* a registration of the event whose name is "7" *)
Reg7a == Registration("7", "t4", "gil", <<"9", "8", "7", "8">>, "301", "INTERNAL", <<>>, 2)

(* the registrations collection: E1 always has entries, E2 has one or none *)
RegistrationStores == { {RegE1a, RegE1b, RegE2a}, {RegE1a, RegE1b} }

(* ---- registrations for the export runs: every team shape up to the bounds *)
MemberChoices == {Member("bo", "102", <<"9", "0", "1">>), Member("di", "", <<>>)}

RECURSIVE SeqsUpTo(_, _)
SeqsUpTo(S, n) ==
    IF n = 0 THEN {<<>>}
    ELSE LET shorter == SeqsUpTo(S, n - 1)
         IN  shorter \cup {Append(t, x) : t \in {u \in shorter : Len(u) = n - 1}, x \in S}

ParticipantTypes == {"INTERNAL", "EXTERNAL"}

(* the i-th registration of E1: an EXTERNAL captain still has a stored roll *)
PoolRegistration(i, type, members) ==
    IF type = "INTERNAL"
    THEN Registration("E1", "t" \o ToString(i), "ann", <<"9", "8", "7", "6">>,
                      "101", type, members, i)
    ELSE Registration("E1", "t" \o ToString(i), "cy",
                      <<"+", "9", "1", " ", "9", "8", "7", "6", "5", "-", "4", "3", "2", "1">>,
                      "777", type, members, i)

ExportStores ==
    UNION { { {PoolRegistration(i, ts[i], ms[i]) : i \in 1..n} :
                ts \in [1..n -> ParticipantTypes],
                ms \in [1..n -> SeqsUpTo(MemberChoices, MaxMembers)] } :
            n \in 1..MaxRegs }

VARIABLES
    env,            \* process.env
    registrations,  \* the registerModel collection
    coordinatorLogs,\* the CoordinatorLog collection, in insertion order
    now,            \* the clock read by new Date()
    req             \* one handler invocation per request

vars == <<env, registrations, coordinatorLogs, now, req>>

(* ------------------------------------------------------ text helpers *)
Digits == {"0", "1", "2", "3", "4", "5", "6", "7", "8", "9"}

RECURSIVE Join(_)
Join(chars) == IF chars = <<>> THEN "" ELSE Head(chars) \o Join(Tail(chars))

(* Date.prototype.toLocaleString of new Date(v); new Date(null) is epoch 0 *)
LocaleString(v) == "T" \o ToString(IF v = NullTime THEN 0 ELSE v)

(* ----------------------------------------------------- store queries *)
(* registerModel.find({ eventName }).sort({ createdAt: -1 }).lean() *)
RECURSIVE SortNewestFirst(_)
SortNewestFirst(S) ==
    IF S = {} THEN <<>>
    ELSE LET newest == CHOOSE x \in S : \A y \in S : y.createdAt <= x.createdAt
         IN  <<newest>> \o SortNewestFirst(S \ {newest})

FindRegistrations(e) ==
    SortNewestFirst({x \in registrations : x.eventName = CastString(e)})

(* a query result is <<>> for null and <<doc>> for a document *)
FirstMatch(idx) == IF idx = {} THEN 0 ELSE CHOOSE i \in idx : \A j \in idx : i <= j

(* CoordinatorLog.findOne({ eventName }) *)
FindOne(e) ==
    LET i == FirstMatch({k \in DOMAIN coordinatorLogs :
                           coordinatorLogs[k].eventName = CastString(e)})
    IN  IF i = 0 THEN <<>> ELSE <<coordinatorLogs[i]>>

(* the document CoordinatorLog.create({ eventName }) builds from the schema defaults *)
NewLog(e) ==
    [eventName |-> CastString(e), vCardsDownloaded |-> FALSE,
     firstDownloaderName |-> Null, downloadTime |-> NullTime]

(* eventName is the unique key of the collection: a second insert is rejected *)
DuplicateKey(e) ==
    \E k \in DOMAIN coordinatorLogs : coordinatorLogs[k].eventName = CastString(e)

(* the filter without its vCardsDownloaded condition *)
ClaimFilterAnyState(e) ==
    FirstMatch({k \in DOMAIN coordinatorLogs : coordinatorLogs[k].eventName = CastString(e)})

(* the filter with its vCardsDownloaded condition inverted *)
ClaimFilterClaimed(e) ==
    FirstMatch({k \in DOMAIN coordinatorLogs :
                  /\ coordinatorLogs[k].eventName = CastString(e)
                  /\ coordinatorLogs[k].vCardsDownloaded = TRUE})

(* index of the document findOneAndUpdate's filter selects, 0 when none *)
ClaimFilter(e) ==
    FirstMatch({k \in DOMAIN coordinatorLogs :
                  /\ coordinatorLogs[k].eventName = CastString(e)
                  /\ coordinatorLogs[k].vCardsDownloaded = FALSE})

(* the $set without vCardsDownloaded *)
ClaimUpdateKeepsFlag(doc, name, time) ==
    [doc EXCEPT !.firstDownloaderName = name, !.downloadTime = time]

(* the $set without firstDownloaderName *)
ClaimUpdateWithoutName(doc, name, time) ==
    [doc EXCEPT !.vCardsDownloaded = TRUE, !.downloadTime = time]

(* the $set without downloadTime *)
ClaimUpdateWithoutTime(doc, name, time) ==
    [doc EXCEPT !.vCardsDownloaded = TRUE, !.firstDownloaderName = name]

(* the $set of the claim *)
ClaimUpdate(doc, name, time) ==
    [doc EXCEPT !.vCardsDownloaded = TRUE,
                !.firstDownloaderName = name,
                !.downloadTime = time]

(* ------------------------------------------------------ authorization *)
EnvGet(k) == IF k \in DOMAIN env THEN env[k] ELSE Undefined

(* the comparison without the check that a master key is set *)
IsAdminUnguarded(body) == body.passkey = EnvGet("PASSKEY_MASTER")

IsAdmin(body) ==
    LET masterKey == EnvGet("PASSKEY_MASTER")
    IN  Truthy(masterKey) /\ body.passkey = masterKey

(* coordsValue.toUpperCase() throws a TypeError when coordsValue is missing *)
AuthThrows(body) == ~IsAdmin(body) /\ body.coordsValue = Undefined

EventKey(body) == "PASSKEY_" \o ToUpperCase(body.coordsValue)

InvalidPasskey(body) ==
    /\ ~IsAdmin(body)
    /\ \/ ~Truthy(EnvGet(EventKey(body)))
       \/ EnvGet(EventKey(body)) # body.passkey

(* ------------------------------------------------- export (STEP 4) *)
Max(a, b) == IF a > b THEN a ELSE b

(* the count taken from the first registration only *)
MaxTeamMembersOfFirst(regs) ==
    IF regs = <<>> THEN 0 ELSE Len(Head(regs).teamMembers)

RECURSIVE MaxTeamMembers(_)
MaxTeamMembers(regs) ==
    IF regs = <<>> THEN 0
    ELSE Max(Len(Head(regs).teamMembers), MaxTeamMembers(Tail(regs)))

FixedColumns == <<"teamName", "capName", "capPhone", "capRoll", "type", "regAt">>

MemberKey(i, field) == "m" \o ToString(i) \o field

RECURSIVE MemberColumns(_, _)
MemberColumns(i, max) ==
    IF i > max THEN <<>>
    ELSE <<MemberKey(i, "Name"), MemberKey(i, "Roll"), MemberKey(i, "Phone")>>
         \o MemberColumns(i + 1, max)

Columns(regs) == FixedColumns \o MemberColumns(1, MaxTeamMembers(regs))

(* JS  a || b  on strings *)
OrElse(a, b) == IF Truthy(a) THEN a ELSE b

RECURSIVE MemberCells(_, _)
MemberCells(members, i) ==
    IF i > Len(members) THEN <<>>
    ELSE <<<<MemberKey(i, "Name"), OrElse(members[i].memName, "-")>>,
           <<MemberKey(i, "Roll"), OrElse(members[i].memRoll, "-")>>,
           <<MemberKey(i, "Phone"), OrElse(Join(members[i].memPhone), "-")>>>>
         \o MemberCells(members, i + 1)

(* the roll cell that shows the stored roll whatever the type *)
CapRollCellRaw(reg) == reg.capRoll

(* line 126 *)
CapRollCell(reg) ==
    IF reg.participantType = "INTERNAL" THEN reg.capRoll ELSE "EXTERNAL"

(* rowData: the key/value pairs the handler sets for one registration *)
RowData(reg) ==
    <<<<"teamName", reg.teamName>>,
      <<"capName", reg.capName>>,
      <<"capPhone", Join(reg.capPhone)>>,
      <<"capRoll", CapRollCell(reg)>>,
      <<"type", reg.participantType>>,
      <<"regAt", LocaleString(reg.createdAt)>>>>
    \o MemberCells(reg.teamMembers, 1)

(* worksheet.addRow(rowData): a column whose key rowData lacks gets no value *)
CellOf(rowData, key) ==
    LET hits == {k \in DOMAIN rowData : rowData[k][1] = key}
    IN  IF hits = {} THEN Undefined ELSE rowData[CHOOSE k \in hits : TRUE][2]

AddRow(columns, rowData) == [c \in DOMAIN columns |-> CellOf(rowData, columns[c])]

Workbook(regs) ==
    [columns |-> Columns(regs),
     rows |-> [n \in DOMAIN regs |-> AddRow(Columns(regs), RowData(regs[n]))]]

Base64(buffer) == [encoding |-> "base64", xlsx |-> buffer]

(* ------------------------------------------- contact cards (STEP 5) *)
EventChars(e) ==
    CASE e = "E1" -> <<"E", "1">>
      [] e = "E2" -> <<"E", "2">>
      [] e = "7"  -> <<"7">>

ToLowerCase(c) == IF c = "E" THEN "e" ELSE c

Substring02(chars) == SubSeq(chars, 1, IF Len(chars) < 2 THEN Len(chars) ELSE 2)

Prefix(e) ==
    LET two == Substring02(EventChars(e))
    IN  Join([k \in DOMAIN two |-> ToLowerCase(two[k])])

IsDigit(c) == c \in Digits

(* capPhone.replace(/\D/g, '').slice(-8) *)
PhoneSuffix(phone) ==
    LET digits == SelectSeq(phone, IsDigit)
    IN  Join(SubSeq(digits, Max(1, Len(digits) - 7), Len(digits)))

UniqueId(e, reg) ==
    IF reg.participantType = "INTERNAL"
    THEN Prefix(e) \o reg.capRoll
    ELSE Prefix(e) \o "EXT" \o PhoneSuffix(reg.capPhone)

generateVCard(name, phone, filename) ==
    [FN |-> filename, N |-> ";" \o filename \o ";;;", TEL |-> phone]

(* the captain card alone *)
CardsOfCaptainOnly(e, reg) ==
    <<generateVCard(reg.capName, Join(reg.capPhone), UniqueId(e, reg) \o "-1")>>

CardsOf(e, reg) ==
    <<generateVCard(reg.capName, Join(reg.capPhone), UniqueId(e, reg) \o "-1")>>
    \o IF Len(reg.teamMembers) >= 1 /\ Len(reg.teamMembers[1].memPhone) > 0
       THEN <<generateVCard(reg.teamMembers[1].memName,
                            Join(reg.teamMembers[1].memPhone),
                            UniqueId(e, reg) \o "-2")>>
       ELSE <<>>

RECURSIVE VCardContent(_, _)
VCardContent(e, regs) ==
    IF regs = <<>> THEN <<>>
    ELSE CardsOf(e, Head(regs)) \o VCardContent(e, Tail(regs))

(* ------------------------------------------------------- responses *)
NoResponse == [status |-> 0]
Unauthorized == [status |-> 401, error |-> "Invalid Passkey"]
ServerError == [status |-> 500, error |-> "Server Error processing download"]
NoneRegistered == [status |-> 200, success |-> FALSE, message |-> "No one registered yet!"]

AdminMessage(log) ==
    IF log.vCardsDownloaded
    THEN "ADMIN MODE: Retrieved all data. (Note: Originally downloaded by "
         \o log.firstDownloaderName \o " at " \o LocaleString(log.downloadTime) \o ")"
    ELSE "ADMIN MODE: Retrieved all data. (Status: Not yet downloaded by any coordinator)"

FirstMessage ==
    "You are the first coordinator, You can download both Contacts and the Excel Sheet"

LateMessage(log) ==
    "Alert : Contacts were ALREADY downloaded by *" \o log.firstDownloaderName
    \o "*, At " \o LocaleString(log.downloadTime) \o "."

(* the grant given to every authorized caller *)
GrantedToEveryone(q) == TRUE

(* STEP 5: the grant that decides whether cards are generated and returned *)
GrantedFullAccess(q) == q.isAdmin \/ q.isFirstDownload

(* line 169: eventName.substring is not a function when eventName is not a *)
(* string; the cards are generated for a granted caller only               *)
CardsThrow(q) == GrantedFullAccess(q) /\ ~IsString(q.body.eventName)

(* reading a field of logDetails throws a TypeError when logDetails is     *)
(* null; so does the card generation on an eventName that is no string     *)
ResponseThrows(q, logDetails) ==
    \/ /\ logDetails = <<>>
       /\ q.isAdmin \/ ~q.isFirstDownload
    \/ CardsThrow(q)

Message(q, logDetails) ==
    IF GrantedFullAccess(q)
    THEN IF q.isAdmin THEN AdminMessage(logDetails[1]) ELSE FirstMessage
    ELSE LateMessage(logDetails[1])

(* STEPS 4 and 5 and the final res.json *)
Response(q, logDetails) ==
    IF ResponseThrows(q, logDetails) THEN ServerError
    ELSE [status |-> 200,
          success |-> TRUE,
          message |-> Message(q, logDetails),
          excelBase64 |-> Base64(Workbook(q.registrations)),
          vcf |-> IF GrantedFullAccess(q)
                  THEN <<VCardContent(q.body.eventName, q.registrations)>>
                  ELSE <<>>]

(* ---------------------------------------------------------- requests *)
(* A request holds the handler's local variables.  existingLog is only     *)
(* tested for null (line 49) and logDetails is reassigned on every path    *)
(* before it is read, so both live inside the action that reads them.      *)
IdleRequest ==
    [pc |-> "idle", body |-> NoBody, isAdmin |-> FALSE, registrations |-> <<>>,
     isFirstDownload |-> FALSE, dbOps |-> 0, resp |-> NoResponse]

Init ==
    /\ env \in Environments
    /\ registrations \in RegistrationStores
    /\ coordinatorLogs = <<>>
    /\ now = 1
    /\ req = [r \in Requests |-> IdleRequest]

(* the empty-result test that never fires *)
NoneFoundNever(found) == FALSE

(* line 39: !registrations || registrations.length === 0 *)
NoneFound(found) == Len(found) = 0

Finish(q, response) == [q EXCEPT !.pc = "done", !.resp = response]

(* The model forgets a local that the rest of the handler never reads.    *)
(* The admin path never reads coordsValue (line 28 is inside the           *)
(* if (!isAdmin) block) nor coordinatorName (its only use is line 77, on   *)
(* the coordinator path).  A request that STEP 1 rejects returns at line   *)
(* 30 (or throws at line 28) before the first use of eventName (line 35)   *)
(* and of coordinatorName.                                                 *)
Forgotten == "forgotten"

Rejected(q) ==
    [q EXCEPT !.body.eventName = Forgotten, !.body.coordinatorName = Forgotten]

Authorized(q) ==
    [q EXCEPT !.pc = "fetch",
              !.body.coordsValue = IF q.isAdmin THEN Forgotten ELSE @,
              !.body.coordinatorName = IF q.isAdmin THEN Forgotten ELSE @]

(* the branch that sends the admin down the coordinator path too *)
LockBranchAlwaysClaim(q) == "claim"

(* where STEP 3 branches once the log entry is ensured *)
LockBranch(q) == IF q.isAdmin THEN "adminRead" ELSE "claim"

(* lines 19-32: STEP 1, run when a request with a body of B arrives *)
ReceiveFrom(r, B) ==
    /\ req[r].pc = "idle"
    /\ \A p \in 1..(r - 1) : req[p].pc # "idle"   \* requests are numbered as they arrive
    /\ \E b \in B :
         LET q == [req[r] EXCEPT !.body = b, !.isAdmin = IsAdmin(b)]
         IN  req' = [req EXCEPT ![r] =
                       IF AuthThrows(b) THEN Finish(Rejected(q), ServerError)
                       ELSE IF InvalidPasskey(b) THEN Finish(Rejected(q), Unauthorized)
                       ELSE Authorized(q)]
    /\ UNCHANGED <<env, registrations, coordinatorLogs, now>>

ReceiveRequest(r) == ReceiveFrom(r, Bodies)

(* lines 35-44: the registrations query and the empty-result return *)
FetchRegistrations(r) ==
    /\ req[r].pc = "fetch"
    /\ LET found == FindRegistrations(req[r].body.eventName)
           q == [req[r] EXCEPT !.registrations = found, !.dbOps = @ + 1]
       IN  req' = [req EXCEPT ![r] =
                     IF NoneFound(found) THEN Finish(q, NoneRegistered)
                     ELSE [q EXCEPT !.pc = "findLog"]]
    /\ UNCHANGED <<env, registrations, coordinatorLogs, now>>

(* lines 48-49: STEP 2, look the log entry up *)
FindExistingLog(r) ==
    /\ req[r].pc = "findLog"
    /\ LET existingLog == FindOne(req[r].body.eventName)
       IN  req' = [req EXCEPT ![r] =
                     [@ EXCEPT !.dbOps = @ + 1,
                               !.pc = IF existingLog = <<>> THEN "create"
                                      ELSE LockBranch(req[r])]]
    /\ UNCHANGED <<env, registrations, coordinatorLogs, now>>

(* the failed create without the inner try/catch: the outer catch answers *)
CreateFailedUncaught(q) == Finish([q EXCEPT !.dbOps = @ + 1], ServerError)

(* lines 52-55: the inner catch sends the request on to the re-read *)
CreateFailed(q) == [q EXCEPT !.dbOps = @ + 1, !.pc = "refetch"]

(* lines 50-53: create the entry; a duplicate key makes create throw *)
CreateLog(r) ==
    /\ req[r].pc = "create"
    /\ LET e == req[r].body.eventName
       IN  IF DuplicateKey(e)
           THEN /\ req' = [req EXCEPT ![r] = CreateFailed(req[r])]
                /\ UNCHANGED coordinatorLogs
           ELSE /\ coordinatorLogs' = Append(coordinatorLogs, NewLog(e))
                /\ req' = [req EXCEPT ![r] =
                             [@ EXCEPT !.dbOps = @ + 1, !.pc = LockBranch(req[r])]]
    /\ UNCHANGED <<env, registrations, now>>

(* line 54: the re-read after the creation race *)
RefetchLog(r) ==
    /\ req[r].pc = "refetch"
    /\ req' = [req EXCEPT ![r] = [@ EXCEPT !.dbOps = @ + 1, !.pc = LockBranch(req[r])]]
    /\ UNCHANGED <<env, registrations, coordinatorLogs, now>>

(* lines 62-68 and 93-204: the admin path reads the entry, writes nothing, *)
(* and answers                                                             *)
AdminReadLog(r) ==
    /\ req[r].pc = "adminRead"
    /\ LET q == [req[r] EXCEPT !.isFirstDownload = FALSE, !.dbOps = @ + 1]
       IN  req' = [req EXCEPT ![r] =
                     Finish(q, Response(q, FindOne(req[r].body.eventName)))]
    /\ UNCHANGED <<env, registrations, coordinatorLogs, now>>

(* lines 72-88: the coordinator path, findOneAndUpdate with { new: true }; *)
(* the winner goes on to lines 93-204 and answers                          *)
ClaimLock(r) ==
    /\ req[r].pc = "claim"
    /\ LET i == ClaimFilter(req[r].body.eventName)
           q == [req[r] EXCEPT !.dbOps = @ + 1]
       IN  IF i # 0
           THEN LET lockResult == ClaimUpdate(coordinatorLogs[i],
                                              req[r].body.coordinatorName, now)
                    first == [q EXCEPT !.isFirstDownload = TRUE]
                IN  /\ coordinatorLogs' = [coordinatorLogs EXCEPT ![i] = lockResult]
                    /\ req' = [req EXCEPT ![r] =
                                 Finish(first, Response(first, <<lockResult>>))]
           ELSE /\ req' = [req EXCEPT ![r] =
                             [q EXCEPT !.isFirstDownload = FALSE, !.pc = "lateRead"]]
                /\ UNCHANGED coordinatorLogs
    /\ now' = now + 1
    /\ UNCHANGED <<env, registrations>>

(* lines 89 and 93-204: the late coordinator reads who holds the claim and *)
(* answers                                                                 *)
LateReadLog(r) ==
    /\ req[r].pc = "lateRead"
    /\ LET q == [req[r] EXCEPT !.dbOps = @ + 1]
       IN  req' = [req EXCEPT ![r] =
                     Finish(q, Response(q, FindOne(req[r].body.eventName)))]
    /\ UNCHANGED <<env, registrations, coordinatorLogs, now>>

Next ==
    \E r \in Requests :
        \/ ReceiveRequest(r)
        \/ FetchRegistrations(r)
        \/ FindExistingLog(r)
        \/ CreateLog(r)
        \/ RefetchLog(r)
        \/ AdminReadLog(r)
        \/ ClaimLock(r)
        \/ LateReadLog(r)

Spec == Init /\ [][Next]_vars

(* ---- the export runs: one request for E1, admin or coordinator, over    *)
(* every registration store within the bounds                              *)
ExportBodies ==
    [eventName : {"E1"}, coordsValue : {"e1"},
     coordinatorName : {"alice"}, passkey : {"m", "k1"}]

InitExport ==
    /\ env = EnvWith("m")
    /\ registrations \in ExportStores
    /\ coordinatorLogs = <<>>
    /\ now = 1
    /\ req = [r \in Requests |-> IdleRequest]

ReceiveExportRequest == ReceiveFrom(1, ExportBodies)

NextExport ==
    \/ ReceiveExportRequest
    \/ FetchRegistrations(1)
    \/ FindExistingLog(1)
    \/ CreateLog(1)
    \/ AdminReadLog(1)
    \/ ClaimLock(1)

SpecExport == InitExport /\ [][NextExport]_vars

(* ---- runs whose eventName is the string "7" or the JSON number 7 *)
AnyBodies ==
    [eventName : {"7", JsonNumber7}, coordsValue : {"e1"},
     coordinatorName : CoordinatorNames, passkey : {"m", "k1"}]

InitAnyBody ==
    /\ env = EnvWith("m")
    /\ registrations = {RegE1a, Reg7a}
    /\ coordinatorLogs = <<>>
    /\ now = 1
    /\ req = [r \in Requests |-> IdleRequest]

ReceiveAnyBody(r) == ReceiveFrom(r, AnyBodies)

NextAnyBody ==
    \E r \in Requests :
        \/ ReceiveAnyBody(r)
        \/ FetchRegistrations(r)
        \/ FindExistingLog(r)
        \/ CreateLog(r)
        \/ RefetchLog(r)
        \/ AdminReadLog(r)
        \/ ClaimLock(r)
        \/ LateReadLog(r)

SpecAnyBody == InitAnyBody /\ [][NextAnyBody]_vars

TypeOK ==
    /\ env \in Environments
    /\ now \in 1..(NReq + 1)
    /\ Len(coordinatorLogs) <= NReq

(* ================================================================ claims *)
Started(r) == req[r].pc # "idle"
EventOf(r) == req[r].body.eventName
Succeeded(r) ==
    req[r].pc = "done" /\ req[r].resp.status = 200 /\ req[r].resp.success
LogsOf(e) == {k \in DOMAIN coordinatorLogs : coordinatorLogs[k].eventName = e}
Claimed(k) == coordinatorLogs[k].vCardsDownloaded
(* a non-admin request observed a successful claim *)
Winner(r) == Started(r) /\ ~req[r].isAdmin /\ req[r].isFirstDownload
(* a non-admin request whose claim step ran and found nothing to claim *)
Late(r) ==
    /\ ~req[r].isAdmin /\ ~req[r].isFirstDownload
    /\ \/ req[r].pc = "lateRead"
       \/ req[r].pc = "done" /\ Len(req[r].registrations) > 0
WinnersOf(e) == {r \in Requests : Winner(r) /\ EventOf(r) = e}

(* C1: for every event, at most one non-admin request observes a          *)
(* successful claim (isFirstDownload = true), whatever the interleaving;   *)
(* every other non-admin request for that event observes false.            *)
C1_AtMostOneWinner ==
    \A e \in EventNames : Cardinality(WinnersOf(e)) <= 1

(* two coordinators raced through the creation of the entry; one won and the *)
(* other ran its claim step and lost                                       *)
C1_Witness ==
    \E w, l \in Requests :
        /\ Winner(w) /\ Late(l) /\ EventOf(w) = EventOf(l)
        /\ req[l].dbOps >= 5

(* C2: in every success response vcf is non-null exactly when the request  *)
(* was an admin request or the non-admin request that won the claim; a late *)
(* coordinator receives vcf = null.                                        *)
C2_VcfIffGranted ==
    \A r \in Requests :
        Succeeded(r) =>
            /\ (req[r].resp.vcf # <<>>) <=> (req[r].isAdmin \/ Winner(r))
            /\ Late(r) => req[r].resp.vcf = <<>>

C2_Witness ==
    \E w, l \in Requests :
        /\ Winner(w) /\ Succeeded(w) /\ req[w].resp.vcf # <<>>
        /\ Late(l) /\ Succeeded(l) /\ req[l].resp.vcf = <<>>

(* C3: a step of an admin request changes no lock record: every record     *)
(* that exists keeps vCardsDownloaded, firstDownloaderName and downloadTime, *)
(* none is removed, and a record it creates is UNCLAIMED.                  *)
C3_AdminNeverMutates ==
    [][\A r \in Requests :
          (req'[r] # req[r] /\ req'[r].isAdmin) =>
              /\ Len(coordinatorLogs') >= Len(coordinatorLogs)
              /\ \A k \in DOMAIN coordinatorLogs :
                     coordinatorLogs'[k] = coordinatorLogs[k]
              /\ \A k \in DOMAIN coordinatorLogs' \ DOMAIN coordinatorLogs :
                     /\ coordinatorLogs'[k].vCardsDownloaded = FALSE
                     /\ coordinatorLogs'[k].firstDownloaderName = Null
                     /\ coordinatorLogs'[k].downloadTime = NullTime]_vars

(* an admin request has read a CLAIMED record and reported it, and the     *)
(* record is still as the claimant left it                                 *)
C3_Witness ==
    \E r \in Requests : \E k \in DOMAIN coordinatorLogs :
        /\ req[r].isAdmin /\ Succeeded(r)
        /\ coordinatorLogs[k].eventName = EventOf(r) /\ Claimed(k)
        /\ req[r].resp.message = AdminMessage(coordinatorLogs[k])

(* the secret configured specifically for an event *)
SecretOfEvent(e) == EnvGet("PASSKEY_" \o ToUpperCase(e))

(* C4: a non-admin request touches the registrations or the lock record of *)
(* event E only if its passkey is the secret configured for E.             *)
C4_AccessKeyedOnEvent ==
    \A r \in Requests :
        (~req[r].isAdmin /\ req[r].dbOps >= 1) =>
            /\ SecretOfEvent(EventOf(r)) \notin {Undefined, ""}
            /\ req[r].body.passkey = SecretOfEvent(EventOf(r))

MasterConfigured == env["PASSKEY_MASTER"] \notin {Undefined, ""}
MatchesMaster(b) == MasterConfigured /\ b.passkey = env["PASSKEY_MASTER"]
MatchesEventSecret(b) ==
    /\ b.coordsValue # Undefined
    /\ ("PASSKEY_" \o ToUpperCase(b.coordsValue)) \in DOMAIN env
    /\ env["PASSKEY_" \o ToUpperCase(b.coordsValue)] \notin {Undefined, ""}
    /\ b.passkey = env["PASSKEY_" \o ToUpperCase(b.coordsValue)]

(* C5: a request whose passkey matches neither the master secret nor the   *)
(* per-event secret ends with the 401 response and has performed no store  *)
(* operation.                                                              *)
C5_NoMatchIs401 ==
    \A r \in Requests :
        (Started(r) /\ ~MatchesMaster(req[r].body) /\ ~MatchesEventSecret(req[r].body)) =>
            /\ req[r].pc = "done"
            /\ req[r].resp = Unauthorized
            /\ req[r].dbOps = 0

(* C6: a request takes the admin path exactly when a master secret is      *)
(* configured and the passkey equals it; with the master secret unset or   *)
(* empty no request takes the admin path.                                  *)
C6_AdminIffMasterMatch ==
    \A r \in Requests :
        Started(r) =>
            /\ req[r].isAdmin <=> MatchesMaster(req[r].body)
            /\ req[r].pc = "adminRead" => MasterConfigured

(* the master secret is unset or empty, a request sent exactly that value  *)
(* as its passkey, and it was not taken for an admin                       *)
C6_Witness ==
    /\ ~MasterConfigured
    /\ \E r \in Requests :
           /\ Started(r) /\ req[r].body.passkey = env["PASSKEY_MASTER"]
           /\ ~req[r].isAdmin /\ req[r].resp.status \in {401, 500}

(* C7: an authorized request on an event with zero registrations gets the  *)
(* informational 200 response {success: false, message} after the one      *)
(* registrations query, and no lock record of that event exists or changes. *)
C7_EmptyEventNoLock ==
    \A r \in Requests :
        (req[r].dbOps >= 1 /\ FindRegistrations(EventOf(r)) = <<>>) =>
            /\ req[r].pc = "done"
            /\ req[r].resp = NoneRegistered
            /\ req[r].dbOps = 1
            /\ LogsOf(EventOf(r)) = {}

C7_Witness ==
    \E a, c \in Requests :
        /\ req[a].isAdmin /\ req[a].pc = "done" /\ req[a].resp = NoneRegistered
        /\ ~req[c].isAdmin /\ req[c].pc = "done" /\ req[c].resp = NoneRegistered

(* C8: once a lock record is CLAIMED it stays CLAIMED with the same         *)
(* firstDownloaderName and downloadTime, and no record is ever removed.    *)
C8_ClaimedIsFinal ==
    [][/\ Len(coordinatorLogs') >= Len(coordinatorLogs)
       /\ \A k \in DOMAIN coordinatorLogs :
              /\ coordinatorLogs'[k].eventName = coordinatorLogs[k].eventName
              /\ Claimed(k) => coordinatorLogs'[k] = coordinatorLogs[k]]_vars

(* a record is CLAIMED and a later coordinator has run its claim step on it *)
C8_Witness ==
    \E l \in Requests : \E k \in LogsOf(EventOf(l)) :
        /\ Late(l) /\ Claimed(k)
        /\ coordinatorLogs[k].firstDownloaderName # req[l].body.coordinatorName

(* a non-admin request has run its claim step *)
RanClaimStep(r) == Winner(r) \/ Late(r)

(* C9: for an event with registrations, as soon as some authorized         *)
(* non-admin request has run its claim step exactly one such request has   *)
(* observed "first" and the record is CLAIMED; admin requests before it do *)
(* not prevent this.                                                       *)
C9_ExactlyOneFirst ==
    \A e \in EventNames :
        (\E r \in Requests : RanClaimStep(r) /\ EventOf(r) = e) =>
            /\ Cardinality(WinnersOf(e)) = 1
            /\ \E k \in LogsOf(e) : Claimed(k)

(* an admin request completed while the record was UNCLAIMED, and a         *)
(* coordinator then claimed it                                             *)
C9_Witness ==
    \E a, w \in Requests :
        /\ req[a].isAdmin /\ Succeeded(a) /\ EventOf(a) = EventOf(w)
        /\ req[a].resp.message = AdminMessage(NewLog(EventOf(a)))
        /\ Winner(w) /\ Succeeded(w)

(* C10: a late coordinator receives a success response with the full       *)
(* export, vcf = null and the message naming the claimant and time recorded *)
(* in the lock record, which is CLAIMED by the request that won.           *)
C10_LateGetsExportAndClaimant ==
    \A l \in Requests :
        (Late(l) /\ req[l].pc = "done") =>
            /\ Succeeded(l)
            /\ req[l].resp.excelBase64 = Base64(Workbook(FindRegistrations(EventOf(l))))
            /\ req[l].resp.vcf = <<>>
            /\ \E k \in LogsOf(EventOf(l)) : \E w \in WinnersOf(EventOf(l)) :
                   /\ Claimed(k)
                   /\ coordinatorLogs[k].firstDownloaderName = req[w].body.coordinatorName
                   /\ coordinatorLogs[k].downloadTime # NullTime
                   /\ req[l].resp.message = LateMessage(coordinatorLogs[k])

(* a late coordinator got its answer, and the claimant it names is another *)
(* coordinator than itself                                                 *)
C10_Witness ==
    \E l \in Requests : \E w \in WinnersOf(EventOf(l)) :
        /\ Late(l) /\ Succeeded(l)
        /\ req[w].body.coordinatorName # req[l].body.coordinatorName

(* ------------------------------------------- export and card claims *)
ExportOf(r) == req[r].resp.excelBase64.xlsx
(* the registrations of a request's event, in the order of the rows *)
StoredRegs(r) == FindRegistrations(EventOf(r))
LargestTeam(regs) ==
    IF regs = <<>> THEN 0
    ELSE CHOOSE m \in {Len(regs[n].teamMembers) : n \in DOMAIN regs} :
             \A n \in DOMAIN regs : Len(regs[n].teamMembers) <= m
ColumnIndex(wb, key) == CHOOSE c \in DOMAIN wb.columns : wb.columns[c] = key
Cell(wb, n, key) == wb.rows[n][ColumnIndex(wb, key)]

(* C11: the export has exactly 6 + 3 * maxTeamMembers columns, where       *)
(* maxTeamMembers is the largest teamMembers length over the registrations *)
(* of the result set (0 when none has members), and every row has a cell   *)
(* for each column.                                                        *)
C11_ColumnCount ==
    \A r \in Requests :
        Succeeded(r) =>
            /\ Len(ExportOf(r).columns) = 6 + 3 * LargestTeam(StoredRegs(r))
            /\ \A n \in DOMAIN ExportOf(r).rows :
                   Len(ExportOf(r).rows[n]) = Len(ExportOf(r).columns)

(* the spec's example: one registration with one team member, 9 columns;   *)
C11_Witness ==
    \E r \in Requests :
        /\ Succeeded(r)
        /\ Len(StoredRegs(r)) = 1 /\ Len(StoredRegs(r)[1].teamMembers) = 1
        /\ Len(ExportOf(r).columns) = 9

(* C12: in every row, each team-member slot beyond the registration's own  *)
(* members, up to maxTeamMembers, holds "-" in its name, roll and phone     *)
(* cells.                                                                  *)
C12_PlaceholderBeyondMembers ==
    \A r \in Requests :
        Succeeded(r) =>
            \A n \in DOMAIN StoredRegs(r) :
                \A i \in (Len(StoredRegs(r)[n].teamMembers) + 1)..LargestTeam(StoredRegs(r)) :
                    /\ Cell(ExportOf(r), n, MemberKey(i, "Name")) = "-"
                    /\ Cell(ExportOf(r), n, MemberKey(i, "Roll")) = "-"
                    /\ Cell(ExportOf(r), n, MemberKey(i, "Phone")) = "-"

(* C13: in every row the captain-roll cell is "EXTERNAL" when the          *)
(* participant type is not INTERNAL, whatever roll is stored, and the      *)
(* stored capRoll when it is INTERNAL.                                     *)
C13_CaptainRollCell ==
    \A r \in Requests :
        Succeeded(r) =>
            \A n \in DOMAIN StoredRegs(r) :
                /\ StoredRegs(r)[n].participantType # "INTERNAL" =>
                       Cell(ExportOf(r), n, "capRoll") = "EXTERNAL"
                /\ StoredRegs(r)[n].participantType = "INTERNAL" =>
                       Cell(ExportOf(r), n, "capRoll") = StoredRegs(r)[n].capRoll

(* an export with a row of each kind; the EXTERNAL captain has a stored roll *)
C13_Witness ==
    \E r \in Requests :
        /\ Succeeded(r)
        /\ \E n, k \in DOMAIN StoredRegs(r) :
               /\ StoredRegs(r)[n].participantType = "EXTERNAL"
               /\ StoredRegs(r)[n].capRoll = "777"
               /\ Cell(ExportOf(r), n, "capRoll") = "EXTERNAL"
               /\ StoredRegs(r)[k].participantType = "INTERNAL"
               /\ Cell(ExportOf(r), k, "capRoll") = "101"

CardsOfResponse(r) == req[r].resp.vcf[1]
GotCards(r) == Succeeded(r) /\ req[r].resp.vcf # <<>>
CardNames(r) == {CardsOfResponse(r)[c].FN : c \in DOMAIN CardsOfResponse(r)}
SomeMemberHasPhone(reg) ==
    \E i \in DOMAIN reg.teamMembers : Len(reg.teamMembers[i].memPhone) > 0
FirstMemberHasPhone(reg) ==
    Len(reg.teamMembers) >= 1 /\ Len(reg.teamMembers[1].memPhone) > 0
IdOf(r, n) == UniqueId(EventOf(r), StoredRegs(r)[n])

(* C14 as stated: one captain card <id>-1 per registration, and a card     *)
(* <id>-2 exactly when the registration has at least one team member with  *)
(* a non-empty phone; the number of cards is the number of registrations   *)
(* plus the number of registrations having such a member.                  *)
C14_SecondCardIfAnyMemberPhone ==
    \A r \in Requests :
        GotCards(r) =>
            /\ \A n \in DOMAIN StoredRegs(r) : (IdOf(r, n) \o "-1") \in CardNames(r)
            /\ Len(CardsOfResponse(r)) =
                   Len(StoredRegs(r))
                   + Cardinality({n \in DOMAIN StoredRegs(r) :
                                    SomeMemberHasPhone(StoredRegs(r)[n])})

(* C14 amended: one captain card <id>-1 per registration, and a card       *)
(* <id>-2 exactly when the registration's first team member exists and has *)
(* a non-empty phone; the number of cards is the number of registrations   *)
(* plus the number of registrations whose first member has a phone.        *)
C14_SecondCardIfFirstMemberPhone ==
    \A r \in Requests :
        GotCards(r) =>
            /\ CardNames(r) =
                   {IdOf(r, n) \o "-1" : n \in DOMAIN StoredRegs(r)}
                   \cup {IdOf(r, n) \o "-2" :
                           n \in {k \in DOMAIN StoredRegs(r) :
                                    FirstMemberHasPhone(StoredRegs(r)[k])}}
            /\ Len(CardsOfResponse(r)) =
                   Len(StoredRegs(r))
                   + Cardinality({n \in DOMAIN StoredRegs(r) :
                                    FirstMemberHasPhone(StoredRegs(r)[n])})

(* cards were generated for a registration whose first member has a phone  *)
(* and for one whose first member has none while a later member has one    *)
C14_Witness ==
    \E r \in Requests :
        /\ GotCards(r)
        /\ \E n, k \in DOMAIN StoredRegs(r) :
               /\ FirstMemberHasPhone(StoredRegs(r)[n])
               /\ (IdOf(r, n) \o "-2") \in CardNames(r)
               /\ ~FirstMemberHasPhone(StoredRegs(r)[k])
               /\ SomeMemberHasPhone(StoredRegs(r)[k])

(* ---------------------------------------------- lock record claims *)
(* C15: when authorized requests race to create the lock record of an      *)
(* event, the store holds exactly one record for it, UNCLAIMED until a     *)
(* coordinator claims it, and no request that reached the store ends in    *)
(* the 500 response: the one whose create fails re-reads and goes on.      *)
C15_CreationRaceTolerated ==
    /\ \A e \in EventNames :
           /\ Cardinality(LogsOf(e)) <= 1
           /\ (\E r \in Requests : req[r].dbOps >= 3 /\ EventOf(r) = e) =>
                  Cardinality(LogsOf(e)) = 1
           /\ \A k \in LogsOf(e) : Claimed(k) <=> WinnersOf(e) # {}
    /\ \A r \in Requests :
           (req[r].pc = "done" /\ req[r].dbOps >= 1) => req[r].resp.status = 200

(* a request lost the creation race (its fifth store operation follows the *)
(* failed create and the re-read) and was answered normally                *)
C15_Witness ==
    \E r \in Requests :
        /\ Succeeded(r) /\ req[r].dbOps >= 5
        /\ req[r].isAdmin \/ Winner(r)
        /\ Cardinality(LogsOf(EventOf(r))) = 1

C17_ClaimedImpliesCards ==
    \A r \in Requests :
        /\ (req[r].pc = "done" /\ req[r].resp.status = 500) =>
               /\ ~req[r].isFirstDownload
               /\ \A k \in DOMAIN coordinatorLogs :
                      (Claimed(k) /\ coordinatorLogs[k].eventName = CastString(EventOf(r))) =>
                          \E w \in Requests : w # r /\ Winner(w)
        /\ (Winner(r) /\ req[r].pc = "done") => GotCards(r)

====
